---- MODULE Spec2Model ----
(***************************************************************************)
(* Model of the Streamlit to-do list application (src/app.py, with the     *)
(* task-entry twin src/get_data.py and the offline trainer src/train.py).  *)
(*                                                                         *)
(* The program state is st.session_state.tasks, a list of task dicts.      *)
(* Every user interaction is one run of main(): the run reads the wall     *)
(* clock, handles at most one pressed button (Add Task, a task's complete  *)
(* button, a task's delete button) and renders the "today" pane from the   *)
(* resulting list.  The "ML-Powered Insights" pane depends on the output   *)
(* of an external classifier and is modelled by the action Insights, whose *)
(* predicted probabilities are chosen nondeterministically.                *)
(*                                                                         *)
(* Time is counted in minutes since 00:00 of day 0.  A datetime is a       *)
(* minute count, a date is a day number.                                   *)
(***************************************************************************)
EXTENDS Integers, Sequences, FiniteSets

VARIABLES
    tasks,       \* st.session_state.tasks
    now,         \* datetime.now() as read by the latest run
    message,     \* sidebar feedback of the latest run: "", "success", "warning"
    maxIssued,   \* history: the largest id any Add Task has assigned so far
    daily,       \* result of analyze_daily_productivity in the latest run
    timetable,   \* result of generate_timetable in the latest run
    df,          \* data frame returned by analyze_productivity
    high_risk    \* df[df['completion_probability'] < 0.3]

vars == <<tasks, now, message, maxIssued, daily, timetable, df, high_risk>>

----------------------------------------------------------------------------
(* Program constants *)

HoursPerDay == 24
MinutesPerHour == 60
MinutesPerDay == HoursPerDay * MinutesPerHour
avg_task_time == 30
HighTime == 60
MediumTime == 45
LowTime == 30
\* the literal 0.3 of the high-risk filter, in hundredths
HighRiskThreshold == 30

Priorities == {"Low", "Medium", "High"}

----------------------------------------------------------------------------
(* Bounds of the model *)

MaxTasks == 2      \* longest task list the store actions build
MaxTicks == 1      \* clock advances (of one hour) during a session
MaxToday == 3      \* longest list given to the capacity estimate
MaxSlots == 3      \* longest list given to the timetable generator
MaxRows == 4       \* longest list given to the productivity analysis

StartClock == (HoursPerDay - 1) * MinutesPerHour    \* 23:00 on day 0
MaxClock == StartClock + MaxTicks * MinutesPerHour
Descriptions == {"a"}
DueDates == {0, 1}
\* predicted probabilities, in hundredths
ProbLevels == {10, 29, 30, 31, 50}

----------------------------------------------------------------------------
(* datetime helpers *)

\* datetime.date()
DateOf(t) == t \div MinutesPerDay

\* datetime.hour
HourOf(t) == (t % MinutesPerDay) \div MinutesPerHour

\* pd.to_datetime(date): midnight of that day
Midnight(d) == d * MinutesPerDay

NoneValue == [is_none |-> TRUE]
NotCalled == [is_none |-> TRUE, not_called |-> TRUE]

----------------------------------------------------------------------------
(* Task store: the button handlers of main() *)

\* the task dict built by the Add Task handler
NewTask(ts, new_task, due_date, priority, t) ==
    [ id          |-> Len(ts) + 1,
      description |-> new_task,
      due_date    |-> due_date,
      priority    |-> priority,
      created_at  |-> t,
      completed   |-> FALSE ]

\* faulty variant: the else is lost, the task is appended whatever the description
AddTaskOutcomeUnchecked(ts, new_task, due_date, priority, t) ==
    [ tasks   |-> Append(ts, NewTask(ts, new_task, due_date, priority, t)),
      message |-> IF new_task # "" THEN "success" ELSE "warning" ]

\* if st.button("Add Task"): if new_task: ... append ... else: st.warning
AddTaskOutcome(ts, new_task, due_date, priority, t) ==
    IF new_task # ""
    THEN [ tasks   |-> Append(ts, NewTask(ts, new_task, due_date, priority, t)),
           message |-> "success" ]
    ELSE [ tasks |-> ts, message |-> "warning" ]

\* filtered_tasks: the tasks that get a form with the two buttons
Visible(task, show_completed) == show_completed \/ ~task.completed

\* faulty variant: the button marks the task complete instead of toggling it
MarkCompleted(ts, i) == [ts EXCEPT ![i].completed = TRUE]

\* task["completed"] = not task["completed"]
ToggleCompleted(ts, i) == [ts EXCEPT ![i].completed = ~@]

RECURSIVE DeleteById(_, _)
\* [t for t in st.session_state.tasks if t["id"] != task["id"]]
DeleteById(ts, id) ==
    IF ts = <<>> THEN <<>>
    ELSE IF Head(ts).id # id
         THEN <<Head(ts)>> \o DeleteById(Tail(ts), id)
         ELSE DeleteById(Tail(ts), id)

----------------------------------------------------------------------------
(* Today pane: analyze_daily_productivity and generate_timetable *)

RECURSIVE DueTodayOrOverdue(_, _)
\* faulty variant: overdue tasks count as today's
DueTodayOrOverdue(ts, today) ==
    IF ts = <<>> THEN <<>>
    ELSE IF Head(ts).due_date <= today
         THEN <<Head(ts)>> \o DueTodayOrOverdue(Tail(ts), today)
         ELSE DueTodayOrOverdue(Tail(ts), today)

RECURSIVE DueToday(_, _)
\* [task for task in tasks if task['due_date'] == today]
DueToday(ts, today) ==
    IF ts = <<>> THEN <<>>
    ELSE IF Head(ts).due_date = today
         THEN <<Head(ts)>> \o DueToday(Tail(ts), today)
         ELSE DueToday(Tail(ts), today)

RECURSIVE CountCompleted(_)
\* sum(1 for task in today_tasks if task['completed'])
CountCompleted(ts) ==
    IF ts = <<>> THEN 0
    ELSE (IF Head(ts).completed THEN 1 ELSE 0) + CountCompleted(Tail(ts))

\* faulty variant: the time needed must be strictly less than the time left
CanCompleteStrict(remaining_tasks, current_hour) ==
    remaining_tasks * avg_task_time < (HoursPerDay - current_hour) * MinutesPerHour

\* estimated_time_needed <= (remaining_hours * 60)
CanComplete(remaining_tasks, current_hour) ==
    LET estimated_time_needed == remaining_tasks * avg_task_time
        remaining_hours       == HoursPerDay - current_hour
    IN  estimated_time_needed <= remaining_hours * MinutesPerHour

\* completion_rate is the quotient (completed_today / total_today) * 100,
\* kept exact as the fraction num / den
analyze_daily_productivity(ts, t) ==
    LET today       == DateOf(t)
        today_tasks == DueToday(ts, today)
    IN  IF today_tasks = <<>>
        THEN NoneValue
        ELSE LET completed_today == CountCompleted(today_tasks)
                 total_today     == Len(today_tasks)
                 remaining_tasks == total_today - completed_today
                 current_hour    == HourOf(t)
             IN  [ is_none         |-> FALSE,
                   today_tasks     |-> today_tasks,
                   completion_rate |-> [ num |-> completed_today * 100,
                                         den |-> total_today ],
                   can_complete    |-> CanComplete(remaining_tasks, current_hour) ]

RECURSIVE DueTodayOpen(_, _)
\* [task for task in tasks if task['due_date'] == today and not task['completed']]
DueTodayOpen(ts, today) ==
    IF ts = <<>> THEN <<>>
    ELSE IF Head(ts).due_date = today /\ ~Head(ts).completed
         THEN <<Head(ts)>> \o DueTodayOpen(Tail(ts), today)
         ELSE DueTodayOpen(Tail(ts), today)

\* faulty variant: Medium and Low change places
priority_order_swapped(p) ==
    CASE p = "High"   -> 1
      [] p = "Medium" -> 3
      [] p = "Low"    -> 2

\* priority_order = {"High": 1, "Medium": 2, "Low": 3}
priority_order(p) ==
    CASE p = "High"   -> 1
      [] p = "Medium" -> 2
      [] p = "Low"    -> 3

RECURSIVE InsertByPriority(_, _)
\* one step of list.sort: x goes behind every element whose key is not larger
InsertByPriority(sorted, x) ==
    IF sorted = <<>> THEN <<x>>
    ELSE IF priority_order(Head(sorted).priority) <= priority_order(x.priority)
         THEN <<Head(sorted)>> \o InsertByPriority(Tail(sorted), x)
         ELSE <<x>> \o sorted

RECURSIVE SortByPriority(_)
\* today_tasks.sort(key=lambda x: priority_order[x["priority"]])
SortByPriority(ts) ==
    IF ts = <<>> THEN <<>>
    ELSE InsertByPriority(SortByPriority(SubSeq(ts, 1, Len(ts) - 1)), ts[Len(ts)])

\* time_allocation = {"High": 60, "Medium": 45, "Low": 30}
time_allocation(p) ==
    CASE p = "High"   -> HighTime
      [] p = "Medium" -> MediumTime
      [] p = "Low"    -> LowTime

RECURSIVE AllocateNoAdvance(_, _)
\* faulty variant: current_time is not moved to end_time
AllocateNoAdvance(ts, current_time) ==
    IF ts = <<>> THEN <<>>
    ELSE << [ task       |-> Head(ts).description,
              priority   |-> Head(ts).priority,
              start_time |-> current_time,
              end_time   |-> current_time + time_allocation(Head(ts).priority),
              duration   |-> time_allocation(Head(ts).priority) ] >>
         \o AllocateNoAdvance(Tail(ts), current_time)

RECURSIVE Allocate(_, _)
\* for task in today_tasks: ... timetable.append(...); current_time = end_time
Allocate(ts, current_time) ==
    IF ts = <<>> THEN <<>>
    ELSE LET task       == Head(ts)
             task_time  == time_allocation(task.priority)
             start_time == current_time
             end_time   == start_time + task_time
         IN  << [ task       |-> task.description,
                  priority   |-> task.priority,
                  start_time |-> start_time,
                  end_time   |-> end_time,
                  duration   |-> task_time ] >>
             \o Allocate(Tail(ts), end_time)

generate_timetable(ts, t) ==
    LET today       == DateOf(t)
        today_tasks == DueTodayOpen(ts, today)
    IN  IF today_tasks = <<>>
        THEN NoneValue
        ELSE [ is_none |-> FALSE,
               slots   |-> Allocate(SortByPriority(today_tasks), t) ]

\* with tab2: if len(tasks) > 0: today_tasks, ... = analyze_daily_productivity(...)
RenderDaily(ts, t) ==
    IF Len(ts) > 0 THEN analyze_daily_productivity(ts, t) ELSE NotCalled

\* if today_tasks: timetable = generate_timetable(st.session_state.tasks)
RenderTimetable(ts, t) ==
    IF Len(ts) > 0 /\ ~analyze_daily_productivity(ts, t).is_none
    THEN generate_timetable(ts, t)
    ELSE NotCalled

----------------------------------------------------------------------------
(* Insights pane: analyze_productivity and the high-risk filter *)

\* faulty variant: a negative difference is clamped to 0
days_to_due_clamped(task) ==
    IF Midnight(task.due_date) < task.created_at THEN 0
    ELSE (Midnight(task.due_date) - task.created_at) \div MinutesPerDay

\* (df['due_date'] - df['created_at']).dt.days, the whole days of the
\* difference between midnight of the due date and the creation time
\* (Timedelta.days rounds towards minus infinity)
days_to_due(task) == (Midnight(task.due_date) - task.created_at) \div MinutesPerDay

\* LabelEncoder.fit_transform: the rank of the label among the labels
\* present in the batch, in their sorted order "High" < "Low" < "Medium"
LabelRank(p) ==
    CASE p = "High"   -> 0
      [] p = "Low"    -> 1
      [] p = "Medium" -> 2

priority_encoded(ts, p) ==
    Cardinality({ LabelRank(ts[i].priority) : i \in 1..Len(ts) }
                \cap 0..(LabelRank(p) - 1))

\* the feature row [days_to_due, priority_encoded] of task i
Features(ts, i) == << days_to_due(ts[i]), priority_encoded(ts, ts[i].priority) >>

\* model.predict_proba(X)[:, 1] has a column 1 only when both classes
\* occur in y; otherwise the indexing raises and the except branch runs
BothClasses(ts) ==
    /\ \E i \in 1..Len(ts) : ts[i].completed
    /\ \E i \in 1..Len(ts) : ~ts[i].completed

\* the classifier is a function of the feature row
ConsistentProba(ts, proba) ==
    \A i, j \in 1..Len(ts) :
        Features(ts, i) = Features(ts, j) => proba[i] = proba[j]

\* proba[i] is predict_proba(X)[i, 1] in hundredths
analyze_productivity(ts, proba) ==
    IF ts = <<>> THEN NoneValue
    ELSE IF ~BothClasses(ts) THEN NoneValue
    ELSE [ is_none |-> FALSE,
           rows    |-> [ i \in 1..Len(ts) |->
                         [ id                     |-> ts[i].id,
                           description            |-> ts[i].description,
                           due_date               |-> Midnight(ts[i].due_date),
                           priority               |-> ts[i].priority,
                           created_at             |-> ts[i].created_at,
                           completed              |-> ts[i].completed,
                           days_to_due            |-> days_to_due(ts[i]),
                           is_completed           |-> IF ts[i].completed THEN 1 ELSE 0,
                           priority_encoded       |-> priority_encoded(ts, ts[i].priority),
                           completion_probability |-> proba[i] ] ] ]

\* faulty variant: the threshold itself counts as high risk
HighRiskMaskInclusive(row) == row.completion_probability <= HighRiskThreshold

\* df['completion_probability'] < 0.3
HighRiskMask(row) == row.completion_probability < HighRiskThreshold

RECURSIVE HighRiskRows(_)
\* df[mask]: the rows whose mask entry is true, in the order of df
HighRiskRows(rows) ==
    IF rows = <<>> THEN <<>>
    ELSE IF HighRiskMask(Head(rows))
         THEN <<Head(rows)>> \o HighRiskRows(Tail(rows))
         ELSE HighRiskRows(Tail(rows))

\* if df is not None: ... high_risk_tasks = df[...]
RenderHighRisk(frame) ==
    IF frame.is_none THEN NotCalled
    ELSE [ is_none |-> FALSE, rows |-> HighRiskRows(frame.rows) ]

----------------------------------------------------------------------------
(* Actions: one run of main() each *)

\* the clock readings a run that follows a run at t can make
ClockReadings(t) == { u \in {t, t + MinutesPerHour} : u <= MaxClock }

Max(a, b) == IF a >= b THEN a ELSE b

\* the rest of the run: tab2 is rendered from the list the handler left
Render(ts, t) ==
    /\ now' = t
    /\ daily' = RenderDaily(ts, t)
    /\ timetable' = RenderTimetable(ts, t)
    /\ UNCHANGED <<df, high_risk>>

\* the Add Task button of the sidebar (src/app.py 174-187)
AddTask ==
    \E t \in ClockReadings(now), new_task \in Descriptions \cup {""},
       due_date \in DueDates, priority \in Priorities :
        LET out == AddTaskOutcome(tasks, new_task, due_date, priority, t)
        IN  /\ Len(out.tasks) <= MaxTasks
            /\ tasks' = out.tasks
            /\ message' = out.message
            /\ maxIssued' = IF Len(out.tasks) > Len(tasks)
                            THEN Max(maxIssued, out.tasks[Len(out.tasks)].id)
                            ELSE maxIssued
            /\ Render(out.tasks, t)

\* the complete button of a displayed task (src/app.py 239-241)
Complete ==
    \E t \in ClockReadings(now), show_completed \in BOOLEAN, i \in 1..Len(tasks) :
        /\ Visible(tasks[i], show_completed)
        /\ tasks' = ToggleCompleted(tasks, i)
        /\ message' = ""
        /\ UNCHANGED maxIssued
        /\ Render(tasks', t)

\* the delete button of a displayed task (src/app.py 242-244)
Delete ==
    \E t \in ClockReadings(now), show_completed \in BOOLEAN, i \in 1..Len(tasks) :
        /\ Visible(tasks[i], show_completed)
        /\ tasks' = DeleteById(tasks, tasks[i].id)
        /\ message' = ""
        /\ UNCHANGED maxIssued
        /\ Render(tasks', t)

\* a run with no button pressed (another widget changed)
Rerun ==
    \E t \in ClockReadings(now) :
        /\ t > now
        /\ message' = ""
        /\ UNCHANGED <<tasks, maxIssued>>
        /\ Render(tasks, t)

Init ==
    /\ tasks = <<>>
    /\ now = StartClock
    /\ message = ""
    /\ maxIssued = 0
    /\ daily = NotCalled
    /\ timetable = NotCalled
    /\ df = NotCalled
    /\ high_risk = NotCalled

Next == AddTask \/ Complete \/ Delete \/ Rerun

Spec == Init /\ [][Next]_vars

----------------------------------------------------------------------------
(* The panes of tab2 on their own, over task lists and clock readings      *)
(* drawn from bounded sets                                                 *)

\* tab2's today pane (src/app.py 268-294) rendered from the current list
ViewToday ==
    /\ daily = NotCalled
    /\ daily' = RenderDaily(tasks, now)
    /\ timetable' = RenderTimetable(tasks, now)
    /\ UNCHANGED <<tasks, now, message, maxIssued, df, high_risk>>

\* tab2's insights pane (src/app.py 297-305); proba is what the fitted
\* classifier predicts for the rows
Insights ==
    /\ Len(tasks) > 0
    /\ df = NotCalled
    /\ \E proba \in [1..Len(tasks) -> ProbLevels] :
        /\ ConsistentProba(tasks, proba)
        /\ df' = analyze_productivity(tasks, proba)
        /\ high_risk' = RenderHighRisk(df')
    /\ UNCHANGED <<tasks, now, message, maxIssued, daily, timetable>>

\* the list the store holds after adding the tasks of shapes[1..n] at time t
ListOf(shapes, t) ==
    [ i \in 1..Len(shapes) |->
        [ id          |-> i,
          description |-> shapes[i].description,
          due_date    |-> shapes[i].due_date,
          priority    |-> shapes[i].priority,
          created_at  |-> t,
          completed   |-> shapes[i].completed ] ]

ListsUpTo(n, Shapes) == UNION { [1..k -> Shapes] : k \in 0..n }

InitPanes ==
    /\ message = ""
    /\ maxIssued = Len(tasks)
    /\ daily = NotCalled
    /\ timetable = NotCalled
    /\ df = NotCalled
    /\ high_risk = NotCalled

\* capacity estimate: every hour of day 0, on the hour and half past
CapacityClocks == { h * MinutesPerHour + m : h \in 0..(HoursPerDay - 1), m \in {0, 30} }
CapacityShapes ==
    [ description : {"a"}, due_date : {0, 1}, priority : {"Medium"},
      completed : BOOLEAN ]

InitCapacity ==
    /\ now \in CapacityClocks
    /\ \E shapes \in ListsUpTo(MaxToday, CapacityShapes) : tasks = ListOf(shapes, now)
    /\ InitPanes

SpecCapacity == InitCapacity /\ [][ViewToday]_vars

\* timetable: 23:40 on day 0, so that slots run past midnight
TimetableClocks == { (HoursPerDay - 1) * MinutesPerHour + 40 }
TimetableShapes ==
    { s \in [ description : {"a", "b"}, due_date : {0, 1}, priority : Priorities,
              completed : BOOLEAN ] : ~(s.due_date = 1 /\ s.completed) }

InitTimetable ==
    /\ now \in TimetableClocks
    /\ \E shapes \in ListsUpTo(MaxSlots, TimetableShapes) : tasks = ListOf(shapes, now)
    /\ InitPanes

SpecTimetable == InitTimetable /\ [][ViewToday]_vars

\* features: a task created at any hour of day 0 (on the hour, one minute
\* past, one minute before the next), due between day -3 and day 5, next
\* to a second task of the other class
FeatureCreated ==
    { h * MinutesPerHour + m : h \in 0..(HoursPerDay - 1), m \in {0, 1, MinutesPerHour - 1} }
FeatureDueDates == (0 - 3)..5

InitFeatures ==
    /\ now = MinutesPerDay
    /\ \E c \in FeatureCreated, d \in FeatureDueDates, done \in BOOLEAN :
        tasks = << [ id |-> 1, description |-> "a", due_date |-> d,
                     priority |-> "High", created_at |-> c, completed |-> done ],
                   [ id |-> 2, description |-> "b", due_date |-> 1,
                     priority |-> "Low", created_at |-> now, completed |-> ~done ] >>
    /\ InitPanes

SpecFeatures == InitFeatures /\ [][Insights]_vars

\* insights: row i is due on day i, so that no two feature rows coincide
InitInsights ==
    /\ now = StartClock
    /\ \E n \in 1..MaxRows : \E done \in [1..n -> BOOLEAN] :
        tasks = [ i \in 1..n |->
                    [ id |-> i, description |-> "a", due_date |-> i,
                      priority |-> "Medium", created_at |-> now,
                      completed |-> done[i] ] ]
    /\ InitPanes

SpecInsights == InitInsights /\ [][Insights]_vars

----------------------------------------------------------------------------
(* Properties *)

\* C1: after any sequence of add, complete and delete runs, no two tasks
\* of the list have the same id.
UniqueIds ==
    \A i, j \in 1..Len(tasks) : i # j => tasks[i].id # tasks[j].id

\* C2: every successful Add Task assigns an id strictly greater than every
\* id an earlier Add Task assigned, so the id of a deleted task is never
\* given out again.
IdsNeverReused ==
    [][ Len(tasks') > Len(tasks) => tasks'[Len(tasks')].id > maxIssued ]_vars

\* the signed calendar-day difference between a task's due date and the
\* day it was created on
CalendarDifference(task) == task.due_date - DateOf(task.created_at)

\* C3 as stated: days_to_due of a task created at any time of day D is the
\* signed calendar-day difference, 5 for a due date D+5 and -3 for D-3.
DaysToDueIsCalendarDifference ==
    ~df.is_none =>
        \A i \in 1..Len(df.rows) :
            /\ df.rows[i].days_to_due = CalendarDifference(tasks[i])
            /\ CalendarDifference(tasks[i]) = 5 => df.rows[i].days_to_due = 5
            /\ CalendarDifference(tasks[i]) = 0 - 3 => df.rows[i].days_to_due = 0 - 3

\* C3 as amended: days_to_due is the signed calendar-day difference only
\* for a task created at exactly 00:00; for a task created later in the
\* day it is one less (4 for D+5, -4 for D-3).  It is never clamped.
DaysToDueIsFloor ==
    ~df.is_none =>
        \A i \in 1..Len(df.rows) :
            LET atMidnight == tasks[i].created_at = Midnight(DateOf(tasks[i].created_at))
                diff       == CalendarDifference(tasks[i])
            IN  /\ atMidnight => df.rows[i].days_to_due = diff
                /\ ~atMidnight => df.rows[i].days_to_due = diff - 1
                /\ (diff = 5 /\ ~atMidnight) => df.rows[i].days_to_due = 4
                /\ (diff = 0 - 3 /\ ~atMidnight) => df.rows[i].days_to_due = 0 - 4

\* a task created at 10:01, due three days before its creation day, has
\* been analysed
DaysToDueWitness ==
    /\ ~df.is_none
    /\ tasks[1].created_at = 10 * MinutesPerHour + 1
    /\ tasks[1].due_date = 0 - 3
    /\ df.rows[1].days_to_due = 0 - 4

RECURSIVE OpenTodayWith(_, _, _)
\* the (description, priority) pairs of the tasks of ts that are due on
\* `today`, not completed and of priority p, in the order of ts
OpenTodayWith(ts, today, p) ==
    IF ts = <<>> THEN <<>>
    ELSE LET rest == OpenTodayWith(Tail(ts), today, p)
         IN  IF Head(ts).due_date = today /\ ~Head(ts).completed /\ Head(ts).priority = p
             THEN << <<Head(ts).description, p>> >> \o rest
             ELSE rest

SlotLabels(slots) == [ i \in 1..Len(slots) |-> <<slots[i].task, slots[i].priority>> ]

\* C4: the slots are the open tasks due today, High first, then Medium,
\* then Low, tasks of equal priority in the order of the task list.
TimetableOrder ==
    (~timetable.is_none) =>
        SlotLabels(timetable.slots) =
            OpenTodayWith(tasks, DateOf(now), "High")
            \o OpenTodayWith(tasks, DateOf(now), "Medium")
            \o OpenTodayWith(tasks, DateOf(now), "Low")

\* a Low task "a", a High task and a Low task "b" were scheduled
TimetableOrderWitness ==
    /\ ~timetable.is_none
    /\ Len(tasks) = 3
    /\ tasks[1].priority = "Low" /\ tasks[1].description = "a"
    /\ SlotLabels(timetable.slots) = << <<"b", "High">>, <<"a", "Low">>, <<"b", "Low">> >>

\* C5: slot 1 starts at the time of the run, every later slot starts where
\* the one before it ends, and every slot lasts its duration: 60 minutes
\* for High, 45 for Medium, 30 for Low.
TimetableContiguous ==
    (~timetable.is_none) =>
        LET slots == timetable.slots
        IN  /\ Len(slots) > 0
            /\ slots[1].start_time = now
            /\ \A i \in 2..Len(slots) : slots[i].start_time = slots[i - 1].end_time
            /\ \A i \in 1..Len(slots) :
                /\ slots[i].end_time - slots[i].start_time = slots[i].duration
                /\ slots[i].priority = "High" => slots[i].duration = 60
                /\ slots[i].priority = "Medium" => slots[i].duration = 45
                /\ slots[i].priority = "Low" => slots[i].duration = 30

\* the tasks High, Low, Medium were scheduled as High, Medium, Low, the
\* last slot ending 135 minutes after the run
TimetableContiguousWitness ==
    /\ ~timetable.is_none
    /\ Len(tasks) = 3
    /\ tasks[1].priority = "High" /\ tasks[2].priority = "Low"
    /\ tasks[3].priority = "Medium"
    /\ Len(timetable.slots) = 3
    /\ timetable.slots[2].priority = "Medium"
    /\ timetable.slots[3].end_time = now + 135

\* the positions of the tasks due on the day of the latest run
TodayIndexes == { i \in 1..Len(tasks) : tasks[i].due_date = DateOf(now) }

\* C6: analyze_daily_productivity returns None exactly when no task is due
\* today; otherwise it returns today's tasks and the completion rate
\* completed_today / total_today * 100, which lies in [0, 100].
DailyResult ==
    daily # NotCalled =>
        /\ daily.is_none <=> TodayIndexes = {}
        /\ ~daily.is_none =>
            LET done == { i \in TodayIndexes : tasks[i].completed }
                rate == daily.completion_rate
            IN  /\ Len(daily.today_tasks) = Cardinality(TodayIndexes)
                /\ \A k \in 1..Len(daily.today_tasks) :
                    \E i \in TodayIndexes :
                        /\ daily.today_tasks[k] = tasks[i]
                        /\ Cardinality({ j \in TodayIndexes : j <= i }) = k
                /\ rate.den = Cardinality(TodayIndexes)
                /\ rate.num = Cardinality(done) * 100
                /\ 0 <= rate.num /\ rate.num <= 100 * rate.den

\* a list with a completed task due today and a task due another day
DailyResultWitness ==
    /\ ~daily.is_none
    /\ Len(daily.today_tasks) < Len(tasks)
    /\ daily.completion_rate.num = 100

\* C7: with a task due today, can_complete is true exactly when the open
\* tasks due today, at 30 minutes each, fit into (24 - current_hour) hours.
Feasibility ==
    (~daily.is_none) =>
        LET open == { i \in TodayIndexes : ~tasks[i].completed }
        IN  daily.can_complete <=>
                Cardinality(open) * 30 <= (24 - HourOf(now)) * 60

\* three open tasks at 23:30 do not fit
FeasibilityWitness ==
    /\ ~daily.is_none
    /\ HourOf(now) = 23
    /\ ~daily.can_complete

\* C8: an Add Task run with an empty description only warns: the list is
\* the same after it, and no task with an empty description is ever stored.
EmptyDescriptionRejected ==
    [][ /\ message' = "warning" => tasks' = tasks
        /\ \A i \in 1..Len(tasks') : tasks'[i].description # "" ]_vars

\* a warning was reported with a task in the list
EmptyDescriptionWitness ==
    /\ message = "warning"
    /\ Len(tasks) > 0

\* C9: the high-risk subset is exactly the rows with a predicted
\* probability below 0.3 (0.1 and 0.29 are in, 0.3, 0.31 and 0.5 are not),
\* unaltered and in the order of df.
HighRiskExact ==
    (~df.is_none) =>
        LET low == { i \in 1..Len(df.rows) : df.rows[i].completion_probability < 30 }
            hr  == high_risk.rows
        IN  /\ ~high_risk.is_none
            /\ Len(hr) = Cardinality(low)
            /\ \A k \in 1..Len(hr) :
                \E i \in low :
                    /\ hr[k] = df.rows[i]
                    /\ Cardinality({ j \in low : j <= i }) = k
            /\ \A i \in 1..Len(df.rows) :
                LET p  == df.rows[i].completion_probability
                    in == \E k \in 1..Len(hr) : hr[k] = df.rows[i]
                IN  /\ p \in {10, 29} => in
                    /\ p \in {30, 31, 50} => ~in

\* probabilities 0.1, 0.5, 0.29, 0.31 gave rows 1 and 3
HighRiskWitness ==
    /\ ~df.is_none
    /\ Len(df.rows) = 4
    /\ [ i \in 1..4 |-> df.rows[i].completion_probability ] = <<10, 50, 29, 31>>
    /\ high_risk.rows = << df.rows[1], df.rows[3] >>

\* the fields of a task that are set at creation
Frozen(task) ==
    << task.id, task.description, task.due_date, task.priority, task.created_at >>

\* C10: a run never changes id, description, due_date, priority or
\* created_at of a task; a run that keeps the length of the list changes
\* the completed flag of at most one task, and toggling that task again
\* gives the list back.
OnlyCompletedChanges ==
    [][ /\ \A j \in 1..Len(tasks') :
            \/ j = Len(tasks') /\ Len(tasks') > Len(tasks)
            \/ \E i \in 1..Len(tasks) : Frozen(tasks[i]) = Frozen(tasks'[j])
        /\ Len(tasks') = Len(tasks) =>
            /\ \A i \in 1..Len(tasks) : Frozen(tasks'[i]) = Frozen(tasks[i])
            /\ \A i, j \in 1..Len(tasks) :
                (tasks'[i] # tasks[i] /\ tasks'[j] # tasks[j]) => i = j
            /\ \A i \in 1..Len(tasks) :
                tasks'[i] # tasks[i] =>
                    /\ tasks'[i].completed = ~tasks[i].completed
                    /\ ToggleCompleted(tasks', i) = tasks ]_vars

\* a task created in an earlier hour is completed, next to an open one
OnlyCompletedChangesWitness ==
    /\ Len(tasks) = 2
    /\ tasks[1].completed /\ tasks[1].created_at < now
    /\ ~tasks[2].completed

\* ts without the task at position i
WithoutPosition(ts, i) == SubSeq(ts, 1, i - 1) \o SubSeq(ts, i + 1, Len(ts))

\* C11: a delete removes exactly one task: the list gets shorter by
\* exactly 1 and every other task stays, unchanged and in the same order.
DeleteRemovesOne ==
    [][ Len(tasks') < Len(tasks) =>
            /\ Len(tasks') = Len(tasks) - 1
            /\ \E i \in 1..Len(tasks) : tasks' = WithoutPosition(tasks, i) ]_vars

====
